---- MODULE Spec2Model ----
(***************************************************************************)
(* FBR invoice routes of the invoice generator backend                     *)
(* (backend/app/api/routes/fbr_invoices.py over backend/app/models.py).    *)
(*                                                                         *)
(* The state is the content of the database tables the routes touch and    *)
(* the response to the request served last.  Every route handler is one    *)
(* action: its guards are the handler's early returns (HTTPException), its *)
(* effect everything the handler commits.  Monetary amounts are modelled   *)
(* as natural numbers (exact arithmetic).  A second specification,         *)
(* Concurrent, follows requests in flight together statement by statement. *)
(***************************************************************************)
EXTENDS Integers, Sequences, FiniteSets, TLC

VARIABLES
    customers,      \* table customer:       id -> owner_id
    companies,      \* table company:        id -> owner_id
    products,       \* table product:        id -> owner_id
    invoices,       \* table fbrinvoice:     id -> row
    items,          \* table fbrinvoiceitem: set of rows, each with its id
    nextInvoiceId,  \* ids handed out so far (uuid4: never reused)
    nextItemId,
    last,           \* the response to the request served last
    nreq,           \* number of requests served
    sessions        \* the requests in flight: position and session state

vars == <<customers, companies, products, invoices, items,
          nextInvoiceId, nextItemId, last, nreq, sessions>>

tables == <<customers, companies, products, invoices, items>>

----------------------------------------------------------------------------
(* Bounds and input domains *)

MaxRequests == 4

MaxInvoices == 2

MaxItems == 2

\* requests that can be in flight together
NumSessions == 2

Users == {"u1", "u2"}

\* ids a request can name in a reference field: 1 and 2 exist, 3 does not
RefIds == {1, 2, 3}

\* invoice ids a request can name: every id handed out so far and one that
\* was never handed out
InvoiceIds == 1 .. nextInvoiceId

\* "no value" of an optional numeric column (all of them are ge=0)
None == -1

NoRef == "None"

Sessions == 1 .. NumSessions

\* a request slot nothing has been received on
Idle ==
    [pc |-> "idle", op |-> "none", user |-> "", id |-> 0, product |-> 0,
     body |-> <<>>, item |-> 0, existing |-> FALSE, loaded |-> <<>>,
     row |-> <<>>,
     rows |-> {}, code |-> 0, detail |-> "", served |-> 0]

----------------------------------------------------------------------------
(* Request bodies *)

\* FBRInvoiceCreate: the caller supplies identity, snapshots, totals and
\* the two references
CreateTotals == { <<0, 0, 0>>, <<9, 0, 9>> }

CreateBodies ==
    { [invoice_ref_no |-> "R1", seller |-> "s1", buyer |-> "b1",
       total_sales_value |-> t[1], total_tax_amount |-> t[2],
       total_invoice_value |-> t[3],
       customer_id |-> c, company_id |-> k] :
      t \in CreateTotals, c \in RefIds, k \in RefIds }

\* FBRInvoiceUpdate: every field optional; a body is the set of fields the
\* caller has set (model_dump(exclude_unset=True))
UpdateBodies ==
    { [invoice_ref_no |-> "R2"],
      [seller |-> "s2", buyer |-> "b2"],
      [seller |-> "s1"],
      [total_sales_value |-> 9, total_tax_amount |-> 9],
      [customer_id |-> 2],
      [company_id |-> 2, customer_id |-> 1],
      [customer_id |-> 3] }

\* FBRInvoiceItemCreate without product_id: a line without optional amounts,
\* and one with some of them set, some set to 0 and some left out, whose
\* total_value is not the sum of its components
ItemBodies ==
    { [value_sales_excluding_st |-> 2, sales_tax_applicable |-> 1, total_value |-> 3,
       sales_tax_withheld_at_source |-> None, extra_tax |-> None, further_tax |-> None,
       fed_payable |-> None, fixed_notified_value |-> None, discount |-> None],
      [value_sales_excluding_st |-> 1, sales_tax_applicable |-> 0, total_value |-> 7,
       sales_tax_withheld_at_source |-> 0, extra_tax |-> 1, further_tax |-> 2,
       fed_payable |-> None, fixed_notified_value |-> 5, discount |-> 0] }

----------------------------------------------------------------------------
(* Responses *)

NoTotals == <<>>

\* what the caller gets back; repeat counts the successful calculate-totals
\* requests on the same invoice served in immediate succession
Response(op, id, code, detail) ==
    [op |-> op, id |-> id, code |-> code, detail |-> detail,
     totals |-> NoTotals, items |-> <<>>, ref |-> NoRef, status |-> NoRef,
     repeat |-> 0]

Reject(op, id, code, detail) ==
    /\ last' = Response(op, id, code, detail)
    /\ UNCHANGED <<tables, nextInvoiceId, nextItemId>>

----------------------------------------------------------------------------
(* Initial state: the reference data of two principals is in place (each   *)
(* has one customer, one company and one product), no invoice exists.      *)

Init ==
    /\ customers = (1 :> "u1") @@ (2 :> "u2")
    /\ companies = (1 :> "u1") @@ (2 :> "u2")
    /\ products = (1 :> "u1") @@ (2 :> "u2")
    /\ invoices = <<>>
    /\ items = {}
    /\ nextInvoiceId = 1
    /\ nextItemId = 1
    /\ last = Response("none", 0, 0, "")
    /\ nreq = 0
    /\ sessions = [p \in Sessions |-> Idle]

----------------------------------------------------------------------------
(* POST / *)

\* a guard that only looks the row up
ExistingReference(table, ref, user) ==
    ref \in DOMAIN table

\* session.get(...) found the row and its owner_id is the caller's
ValidReference(table, ref, user) ==
    ref \in DOMAIN table /\ table[ref] = user

\* a row whose status column defaults to the state after submission
NewInvoiceSubmitted(body, user) ==
    [owner_id |-> user, status |-> "submitted", fbr_reference |-> NoRef,
     invoice_ref_no |-> body.invoice_ref_no,
     seller |-> body.seller, buyer |-> body.buyer,
     total_sales_value |-> body.total_sales_value,
     total_tax_amount |-> body.total_tax_amount,
     total_invoice_value |-> body.total_invoice_value,
     customer_id |-> body.customer_id, company_id |-> body.company_id]

\* FBRInvoice.model_validate(invoice_in, update={"owner_id": ...})
NewInvoice(body, user) ==
    [owner_id |-> user, status |-> "draft", fbr_reference |-> NoRef,
     invoice_ref_no |-> body.invoice_ref_no,
     seller |-> body.seller, buyer |-> body.buyer,
     total_sales_value |-> body.total_sales_value,
     total_tax_amount |-> body.total_tax_amount,
     total_invoice_value |-> body.total_invoice_value,
     customer_id |-> body.customer_id, company_id |-> body.company_id]

create_fbr_invoice(user, body) ==
    /\ nreq < MaxRequests
    /\ nextInvoiceId <= MaxInvoices
    /\ nreq' = nreq + 1
    /\ UNCHANGED sessions
    /\ IF ~ValidReference(customers, body.customer_id, user)
       THEN Reject("create", 0, 400, "Invalid customer")
       ELSE IF ~ValidReference(companies, body.company_id, user)
       THEN Reject("create", 0, 400, "Invalid company")
       ELSE /\ invoices' = invoices @@ (nextInvoiceId :> NewInvoice(body, user))
            /\ nextInvoiceId' = nextInvoiceId + 1
            /\ last' = Response("create", nextInvoiceId, 200, "")
            /\ UNCHANGED <<customers, companies, products, items, nextItemId>>

----------------------------------------------------------------------------
(* Guards shared by the handlers that address an invoice by id *)

\* session.get(FBRInvoice, invoice_id) found a row
Found(id) == id \in DOMAIN invoices

\* an ownership check that is only made on drafts
NotOwnerOfDraft(id, user) ==
    invoices[id].owner_id # user /\ invoices[id].status = "draft"

\* invoice.owner_id != current_user.id
NotOwner(id, user) == invoices[id].owner_id # user

\* invoice.status in ["submitted", "posted"], as update checks it
UpdateLockedSubmittedOnly(status) == status = "submitted"

UpdateLocked(status) == status \in {"submitted", "posted"}

\* the same check in delete
DeleteLockedSubmittedOnly(status) == status = "submitted"

DeleteLocked(status) == status \in {"submitted", "posted"}

\* the same check in add-item
AddItemLockedSubmittedOnly(status) == status = "submitted"

AddItemLocked(status) == status \in {"submitted", "posted"}

----------------------------------------------------------------------------
(* PUT /{invoice_id} *)

\* a rebuild of the row from the body, columns it leaves out at their defaults
sqlmodel_rebuild(row, body) ==
    [f \in DOMAIN row |->
        IF f \in DOMAIN body THEN body[f]
        ELSE IF f = "status" THEN "draft"
        ELSE IF f = "fbr_reference" THEN NoRef
        ELSE row[f]]

\* invoice.sqlmodel_update(update_dict): the fields the body sets are
\* overwritten, every other column keeps its value
sqlmodel_update(row, body) ==
    [f \in DOMAIN row |-> IF f \in DOMAIN body THEN body[f] ELSE row[f]]

\* the foreign keys of fbrinvoice hold at commit
ForeignKeysHold(row) ==
    /\ row.customer_id \in DOMAIN customers
    /\ row.company_id \in DOMAIN companies

update_fbr_invoice(user, id, body) ==
    /\ nreq < MaxRequests
    /\ nreq' = nreq + 1
    /\ UNCHANGED sessions
    /\ IF ~Found(id)
       THEN Reject("update", id, 404, "Invoice not found")
       ELSE IF NotOwner(id, user)
       THEN Reject("update", id, 400, "Not enough permissions")
       ELSE IF UpdateLocked(invoices[id].status)
       THEN Reject("update", id, 400, "Cannot update submitted or posted invoices")
       ELSE IF ~ForeignKeysHold(sqlmodel_update(invoices[id], body))
       THEN Reject("update", id, 500, "IntegrityError")
       ELSE /\ invoices' = [invoices EXCEPT ![id] = sqlmodel_update(@, body)]
            /\ last' = Response("update", id, 200, "")
            /\ UNCHANGED <<customers, companies, products, items,
                           nextInvoiceId, nextItemId>>

----------------------------------------------------------------------------
(* DELETE /{invoice_id} *)

\* a relationship that reaches no row
ItemsOfNone(id) == {}

\* rows of fbrinvoiceitem with this invoice_id
ItemsOf(id) == { it \in items : it.invoice_id = id }

\* session.delete(invoice) with items: cascade_delete=True
delete_fbr_invoice(user, id) ==
    /\ nreq < MaxRequests
    /\ nreq' = nreq + 1
    /\ UNCHANGED sessions
    /\ IF ~Found(id)
       THEN Reject("delete", id, 404, "Invoice not found")
       ELSE IF NotOwner(id, user)
       THEN Reject("delete", id, 400, "Not enough permissions")
       ELSE IF DeleteLocked(invoices[id].status)
       THEN Reject("delete", id, 400, "Cannot delete submitted or posted invoices")
       ELSE /\ invoices' = [j \in DOMAIN invoices \ {id} |-> invoices[j]]
            /\ items' = items \ ItemsOf(id)
            /\ last' = Response("delete", id, 200, "Invoice deleted successfully")
            /\ UNCHANGED <<customers, companies, products,
                           nextInvoiceId, nextItemId>>

----------------------------------------------------------------------------
(* _recalculate_invoice_totals *)

RECURSIVE SumOver(_, _)
\* sum(item.<field> for item in items)
SumOver(rows, field) ==
    IF rows = {} THEN 0
    ELSE LET r == CHOOSE x \in rows : TRUE
         IN r[field] + SumOver(rows \ {r}, field)

\* the three sums over the rows selected for the invoice
Totals(rows) ==
    << SumOver(rows, "value_sales_excluding_st"),
       SumOver(rows, "sales_tax_applicable"),
       SumOver(rows, "total_value") >>

\* the rows the helper selects: where invoice_id == invoice.id
RecalcRowsUnfiltered(id, table) == table

RecalcRows(id, table) == { it \in table : it.invoice_id = id }

\* the sums added to the stored totals instead of replacing them
WithTotalsAdded(row, t) ==
    [row EXCEPT !.total_sales_value = @ + t[1],
                !.total_tax_amount = @ + t[2],
                !.total_invoice_value = @ + t[3]]

\* the sums stored on a row whose other columns are back at their defaults
WithTotalsAsDraft(row, t) ==
    [row EXCEPT !.total_sales_value = t[1],
                !.total_tax_amount = t[2],
                !.total_invoice_value = t[3],
                !.status = "draft",
                !.fbr_reference = NoRef]

\* the invoice row after the helper has stored the sums
WithTotals(row, t) ==
    [row EXCEPT !.total_sales_value = t[1],
                !.total_tax_amount = t[2],
                !.total_invoice_value = t[3]]

StoredTotals(row) ==
    << row.total_sales_value, row.total_tax_amount, row.total_invoice_value >>

----------------------------------------------------------------------------
(* POST /{invoice_id}/items *)

\* FBRInvoiceItem.model_validate(item_in, update={"invoice_id": invoice_id})
NewItem(body, product, id, itemId) ==
    [id |-> itemId, invoice_id |-> id, product_id |-> product,
     value_sales_excluding_st |-> body.value_sales_excluding_st,
     sales_tax_applicable |-> body.sales_tax_applicable,
     total_value |-> body.total_value,
     sales_tax_withheld_at_source |-> body.sales_tax_withheld_at_source,
     extra_tax |-> body.extra_tax, further_tax |-> body.further_tax,
     fed_payable |-> body.fed_payable,
     fixed_notified_value |-> body.fixed_notified_value,
     discount |-> body.discount]

add_invoice_item(user, id, body, product) ==
    /\ nreq < MaxRequests
    /\ nextItemId <= MaxItems
    /\ nreq' = nreq + 1
    /\ UNCHANGED sessions
    /\ IF ~Found(id)
       THEN Reject("add_item", id, 404, "Invoice not found")
       ELSE IF NotOwner(id, user)
       THEN Reject("add_item", id, 400, "Not enough permissions")
       ELSE IF AddItemLocked(invoices[id].status)
       THEN Reject("add_item", id, 400, "Cannot modify submitted or posted invoices")
       ELSE IF ~ValidReference(products, product, user)
       THEN Reject("add_item", id, 400, "Invalid product")
       ELSE /\ items' = items \cup {NewItem(body, product, id, nextItemId)}
            /\ nextItemId' = nextItemId + 1
            /\ invoices' = [invoices EXCEPT
                  ![id] = WithTotals(@, Totals(RecalcRows(id, items')))]
            /\ last' = Response("add_item", id, 200, "Item added successfully")
            /\ UNCHANGED <<customers, companies, products, nextInvoiceId>>

----------------------------------------------------------------------------
(* POST /{invoice_id}/calculate-totals *)

calculate_invoice_totals(user, id) ==
    /\ nreq < MaxRequests
    /\ nreq' = nreq + 1
    /\ UNCHANGED sessions
    /\ IF ~Found(id)
       THEN Reject("calculate_totals", id, 404, "Invoice not found")
       ELSE IF NotOwner(id, user)
       THEN Reject("calculate_totals", id, 400, "Not enough permissions")
       ELSE /\ LET t == Totals(RecalcRows(id, items))
               IN /\ invoices' = [invoices EXCEPT ![id] = WithTotals(@, t)]
                  /\ last' = [Response("calculate_totals", id, 200, "")
                                EXCEPT !.totals = t,
                                       !.repeat = IF /\ last.op = "calculate_totals"
                                                     /\ last.code = 200
                                                     /\ last.id = id
                                                  THEN 2 ELSE 1]
            /\ UNCHANGED <<customers, companies, products, items,
                           nextInvoiceId, nextItemId>>

----------------------------------------------------------------------------
(* POST /{invoice_id}/submit-to-fbr *)

\* f"FBR-{invoice.invoice_ref_no}"
FbrReference(ref_no) == "FBR-" \o ref_no

\* a check that only refuses what is already submitted
SubmittableUnlessSubmitted(status) == status # "submitted"

\* invoice.status != "draft" is the handler's rejection
Submittable(status) == status = "draft"

\* the two assignments committed together
Submitted(row) ==
    [row EXCEPT !.status = "submitted",
                !.fbr_reference = FbrReference(row.invoice_ref_no)]

submit_to_fbr(user, id) ==
    /\ nreq < MaxRequests
    /\ nreq' = nreq + 1
    /\ UNCHANGED sessions
    /\ IF ~Found(id)
       THEN Reject("submit", id, 404, "Invoice not found")
       ELSE IF NotOwner(id, user)
       THEN Reject("submit", id, 400, "Not enough permissions")
       ELSE IF ~Submittable(invoices[id].status)
       THEN Reject("submit", id, 400, "Only draft invoices can be submitted")
       ELSE /\ invoices' = [invoices EXCEPT ![id] = Submitted(@)]
            /\ last' = [Response("submit", id, 200,
                                 "Invoice submitted to FBR successfully")
                          EXCEPT !.ref = invoices'[id].fbr_reference,
                                 !.status = invoices'[id].status]
            /\ UNCHANGED <<customers, companies, products, items,
                           nextInvoiceId, nextItemId>>

----------------------------------------------------------------------------
(* GET /{invoice_id} *)

read_fbr_invoice(user, id) ==
    /\ nreq < MaxRequests
    /\ nreq' = nreq + 1
    /\ UNCHANGED sessions
    /\ IF ~Found(id)
       THEN Reject("read", id, 404, "Invoice not found")
       ELSE IF NotOwner(id, user)
       THEN Reject("read", id, 400, "Not enough permissions")
       ELSE /\ last' = [Response("read", id, 200, "")
                          EXCEPT !.totals = StoredTotals(invoices[id]),
                                 !.ref = invoices[id].fbr_reference,
                                 !.status = invoices[id].status]
            /\ UNCHANGED <<tables, nextInvoiceId, nextItemId>>

----------------------------------------------------------------------------
(* GET /{invoice_id}/fbr-json *)

\* float(x or 0)
OrZero(x) == IF x = None \/ x = 0 THEN 0 ELSE x

\* one entry of "Items"
ItemJson(it) ==
    [ValueSalesExcludingST |-> it.value_sales_excluding_st,
     SalesTaxApplicable |-> it.sales_tax_applicable,
     SalesTaxWithheldAtSource |-> OrZero(it.sales_tax_withheld_at_source),
     ExtraTax |-> OrZero(it.extra_tax),
     FurtherTax |-> OrZero(it.further_tax),
     FEDPayable |-> OrZero(it.fed_payable),
     FixedNotifiedValue |-> OrZero(it.fixed_notified_value),
     Discount |-> OrZero(it.discount),
     TotalValue |-> it.total_value]

\* the orders in which the rows of a SELECT without ORDER BY can arrive
Orderings(rows) ==
    { s \in [1 .. Cardinality(rows) -> rows] :
        \A a, b \in 1 .. Cardinality(rows) : a # b => s[a] # s[b] }

\* session.exec(select(FBRInvoiceItem).where(invoice_id == ...)).all()
SelectItems(id) == Orderings(ItemsOf(id))

\* a document that is only built while the invoice can still change
get_fbr_json_unless_locked(user, id) ==
    /\ nreq < MaxRequests
    /\ nreq' = nreq + 1
    /\ UNCHANGED sessions
    /\ IF ~Found(id)
       THEN Reject("fbr_json", id, 404, "Invoice not found")
       ELSE IF NotOwner(id, user)
       THEN Reject("fbr_json", id, 400, "Not enough permissions")
       ELSE IF invoices[id].status \in {"submitted", "posted"}
       THEN Reject("fbr_json", id, 400, "Cannot modify submitted or posted invoices")
       ELSE /\ \E rows \in SelectItems(id) :
                 last' = [Response("fbr_json", id, 200, "")
                            EXCEPT !.totals = StoredTotals(invoices[id]),
                                   !.ref = invoices[id].invoice_ref_no,
                                   !.items = [k \in DOMAIN rows |-> ItemJson(rows[k])]]
            /\ UNCHANGED <<tables, nextInvoiceId, nextItemId>>

get_fbr_json(user, id) ==
    /\ nreq < MaxRequests
    /\ nreq' = nreq + 1
    /\ UNCHANGED sessions
    /\ IF ~Found(id)
       THEN Reject("fbr_json", id, 404, "Invoice not found")
       ELSE IF NotOwner(id, user)
       THEN Reject("fbr_json", id, 400, "Not enough permissions")
       ELSE /\ \E rows \in SelectItems(id) :
                 last' = [Response("fbr_json", id, 200, "")
                            EXCEPT !.totals = StoredTotals(invoices[id]),
                                   !.ref = invoices[id].invoice_ref_no,
                                   !.items = [k \in DOMAIN rows |-> ItemJson(rows[k])]]
            /\ UNCHANGED <<tables, nextInvoiceId, nextItemId>>

----------------------------------------------------------------------------
(* The tax authority's answer to a submission: the only source of the     *)
(* statuses posted and error.  No route of the backend performs it.       *)

FbrOutcome(id, status) ==
    /\ Found(id)
    /\ invoices[id].status = "submitted"
    /\ invoices' = [invoices EXCEPT ![id].status = status]
    /\ last' = Response("fbr_outcome", id, 0, status)
    /\ UNCHANGED <<customers, companies, products, items,
                   nextInvoiceId, nextItemId, nreq, sessions>>

----------------------------------------------------------------------------
Next ==
    \/ \E u \in Users, b \in CreateBodies : create_fbr_invoice(u, b)
    \/ \E u \in Users, i \in InvoiceIds, b \in UpdateBodies : update_fbr_invoice(u, i, b)
    \/ \E u \in Users, i \in InvoiceIds : delete_fbr_invoice(u, i)
    \/ \E u \in Users, i \in InvoiceIds, b \in ItemBodies, p \in RefIds :
          add_invoice_item(u, i, b, p)
    \/ \E u \in Users, i \in InvoiceIds : calculate_invoice_totals(u, i)
    \/ \E u \in Users, i \in InvoiceIds : submit_to_fbr(u, i)
    \/ \E u \in Users, i \in InvoiceIds : read_fbr_invoice(u, i)
    \/ \E u \in Users, i \in InvoiceIds : get_fbr_json(u, i)
    \/ \E i \in InvoiceIds, s \in {"posted", "error"} : FbrOutcome(i, s)

Spec == Init /\ [][Next]_vars

----------------------------------------------------------------------------
(* Requests in flight together.  Every request runs in a session of its    *)
(* own (SessionDep); a step is one statement or one commit against the     *)
(* database, which other sessions see as soon as it is committed.  The     *)
(* handlers followed statement by statement are create_company,            *)
(* add_invoice_item with the helper it calls, update_fbr_invoice,          *)
(* submit_to_fbr and get_fbr_json.                                         *)

\* the request of session p has been answered
Answer(p, op, id, code, detail) ==
    /\ nreq' = nreq + 1
    /\ last' = Response(op, id, code, detail)
    /\ sessions' = [sessions EXCEPT ![p].pc = "done", ![p].op = op, ![p].id = id,
                                    ![p].code = code, ![p].detail = detail,
                                    ![p].served = nreq + 1]

\* select(Company).where(Company.owner_id == current_user.id) ... .first()
ExistingCompany(user) == \E c \in DOMAIN companies : companies[c] = user

\* create_company: the check for a company of the caller
create_company_check(p, user) ==
    /\ sessions[p].pc = "idle"
    /\ IF ExistingCompany(user)
       THEN /\ Answer(p, "create_company", 0, 400,
                      "User already has a company registered")
            /\ UNCHANGED <<tables, nextInvoiceId, nextItemId>>
       ELSE /\ sessions' = [sessions EXCEPT ![p].pc = "company_insert",
                                            ![p].op = "create_company",
                                            ![p].user = user]
            /\ UNCHANGED <<tables, nextInvoiceId, nextItemId, last, nreq>>

\* create_company: session.add(company); session.commit()
create_company_commit(p) ==
    /\ sessions[p].pc = "company_insert"
    /\ companies' = companies @@
                      (Cardinality(DOMAIN companies) + 1 :> sessions[p].user)
    /\ Answer(p, "create_company", 0, 200, "")
    /\ UNCHANGED <<customers, products, invoices, items,
                   nextInvoiceId, nextItemId>>

\* add_invoice_item up to the insert: the handler's four checks
add_item_check(p, user, id, body, product) ==
    /\ sessions[p].pc = "idle"
    /\ IF ~Found(id)
       THEN /\ Answer(p, "add_item", id, 404, "Invoice not found")
            /\ UNCHANGED <<tables, nextInvoiceId, nextItemId>>
       ELSE IF NotOwner(id, user)
       THEN /\ Answer(p, "add_item", id, 400, "Not enough permissions")
            /\ UNCHANGED <<tables, nextInvoiceId, nextItemId>>
       ELSE IF AddItemLocked(invoices[id].status)
       THEN /\ Answer(p, "add_item", id, 400,
                      "Cannot modify submitted or posted invoices")
            /\ UNCHANGED <<tables, nextInvoiceId, nextItemId>>
       ELSE IF ~ValidReference(products, product, user)
       THEN /\ Answer(p, "add_item", id, 400, "Invalid product")
            /\ UNCHANGED <<tables, nextInvoiceId, nextItemId>>
       ELSE /\ sessions' = [sessions EXCEPT ![p].pc = "item_insert",
                                            ![p].op = "add_item",
                                            ![p].user = user, ![p].id = id,
                                            ![p].body = body,
                                            ![p].product = product]
            /\ UNCHANGED <<tables, nextInvoiceId, nextItemId, last, nreq>>

\* session.add(item); session.commit(): the item is visible to every session
add_item_commit(p) ==
    /\ sessions[p].pc = "item_insert"
    /\ items' = items \cup {NewItem(sessions[p].body, sessions[p].product,
                                    sessions[p].id, nextItemId)}
    /\ nextItemId' = nextItemId + 1
    /\ sessions' = [sessions EXCEPT ![p].pc = "recalc_load",
                                    ![p].item = nextItemId]
    /\ UNCHANGED <<customers, companies, products, invoices,
                   nextInvoiceId, last, nreq>>

\* _recalculate_invoice_totals: invoice.id is read from the invoice the
\* commit has expired, which loads the row as it is now
recalc_load(p) ==
    /\ sessions[p].pc = "recalc_load"
    /\ sessions' = [sessions EXCEPT
                      ![p].pc = "recalc_select",
                      ![p].loaded = StoredTotals(invoices[sessions[p].id])]
    /\ UNCHANGED <<tables, nextInvoiceId, nextItemId, last, nreq>>

\* _recalculate_invoice_totals: the select of the invoice's items
recalc_select(p) ==
    /\ sessions[p].pc = "recalc_select"
    /\ sessions' = [sessions EXCEPT
                      ![p].pc = "recalc_commit",
                      ![p].rows = RecalcRows(sessions[p].id, items)]
    /\ UNCHANGED <<tables, nextInvoiceId, nextItemId, last, nreq>>

\* the difference to the loaded totals is applied to the stored ones
FlushTotalsAsDelta(row, loaded, t) ==
    [row EXCEPT !.total_sales_value = @ + t[1] - loaded[1],
                !.total_tax_amount = @ + t[2] - loaded[2],
                !.total_invoice_value = @ + t[3] - loaded[3]]

\* the three assignments and the commit: the UPDATE sets the columns whose
\* assigned value differs from the loaded one
FlushTotals(row, loaded, t) ==
    [row EXCEPT !.total_sales_value = IF t[1] # loaded[1] THEN t[1] ELSE @,
                !.total_tax_amount = IF t[2] # loaded[2] THEN t[2] ELSE @,
                !.total_invoice_value = IF t[3] # loaded[3] THEN t[3] ELSE @]

\* _recalculate_invoice_totals: sums, assignments, commit; add_invoice_item
\* returns
recalc_commit(p) ==
    /\ sessions[p].pc = "recalc_commit"
    /\ invoices' = [invoices EXCEPT ![sessions[p].id] =
                      FlushTotals(@, sessions[p].loaded, Totals(sessions[p].rows))]
    /\ Answer(p, "add_item", sessions[p].id, 200, "Item added successfully")
    /\ UNCHANGED <<customers, companies, products, items,
                   nextInvoiceId, nextItemId>>

\* session.add(invoice); session.commit(): the UPDATE sets the columns the
\* session has changed since it loaded the row, the others keep what is
\* stored
FlushRow(current, loaded, new) ==
    [f \in DOMAIN current |-> IF new[f] # loaded[f] THEN new[f] ELSE current[f]]

\* update_fbr_invoice up to the write: session.get and the three checks
update_check(p, user, id, body) ==
    /\ sessions[p].pc = "idle"
    /\ IF ~Found(id)
       THEN /\ Answer(p, "update", id, 404, "Invoice not found")
            /\ UNCHANGED <<tables, nextInvoiceId, nextItemId>>
       ELSE IF NotOwner(id, user)
       THEN /\ Answer(p, "update", id, 400, "Not enough permissions")
            /\ UNCHANGED <<tables, nextInvoiceId, nextItemId>>
       ELSE IF UpdateLocked(invoices[id].status)
       THEN /\ Answer(p, "update", id, 400,
                      "Cannot update submitted or posted invoices")
            /\ UNCHANGED <<tables, nextInvoiceId, nextItemId>>
       ELSE /\ sessions' = [sessions EXCEPT ![p].pc = "update_commit",
                                            ![p].op = "update",
                                            ![p].user = user, ![p].id = id,
                                            ![p].body = body,
                                            ![p].row = invoices[id]]
            /\ UNCHANGED <<tables, nextInvoiceId, nextItemId, last, nreq>>

\* update_fbr_invoice: sqlmodel_update on the loaded invoice and the commit
update_commit(p) ==
    /\ sessions[p].pc = "update_commit"
    /\ LET id == sessions[p].id
           new == FlushRow(invoices[id], sessions[p].row,
                           sqlmodel_update(sessions[p].row, sessions[p].body))
       IN IF ~ForeignKeysHold(new)
          THEN /\ Answer(p, "update", id, 500, "IntegrityError")
               /\ UNCHANGED <<tables, nextInvoiceId, nextItemId>>
          ELSE /\ invoices' = [invoices EXCEPT ![id] = new]
               /\ Answer(p, "update", id, 200, "")
               /\ UNCHANGED <<customers, companies, products, items,
                              nextInvoiceId, nextItemId>>

\* submit_to_fbr up to the write: session.get and the three checks
submit_check(p, user, id) ==
    /\ sessions[p].pc = "idle"
    /\ IF ~Found(id)
       THEN /\ Answer(p, "submit", id, 404, "Invoice not found")
            /\ UNCHANGED <<tables, nextInvoiceId, nextItemId>>
       ELSE IF NotOwner(id, user)
       THEN /\ Answer(p, "submit", id, 400, "Not enough permissions")
            /\ UNCHANGED <<tables, nextInvoiceId, nextItemId>>
       ELSE IF ~Submittable(invoices[id].status)
       THEN /\ Answer(p, "submit", id, 400, "Only draft invoices can be submitted")
            /\ UNCHANGED <<tables, nextInvoiceId, nextItemId>>
       ELSE /\ sessions' = [sessions EXCEPT ![p].pc = "submit_commit",
                                            ![p].op = "submit",
                                            ![p].user = user, ![p].id = id,
                                            ![p].row = invoices[id]]
            /\ UNCHANGED <<tables, nextInvoiceId, nextItemId, last, nreq>>

\* submit_to_fbr: the two assignments on the loaded invoice and the commit
submit_commit(p) ==
    /\ sessions[p].pc = "submit_commit"
    /\ invoices' = [invoices EXCEPT ![sessions[p].id] =
                      FlushRow(@, sessions[p].row, Submitted(sessions[p].row))]
    /\ Answer(p, "submit", sessions[p].id, 200,
              "Invoice submitted to FBR successfully")
    /\ UNCHANGED <<customers, companies, products, items,
                   nextInvoiceId, nextItemId>>

\* get_fbr_json up to the select: session.get and the two checks
fbr_json_check(p, user, id) ==
    /\ sessions[p].pc = "idle"
    /\ IF ~Found(id)
       THEN /\ Answer(p, "fbr_json", id, 404, "Invoice not found")
            /\ UNCHANGED <<tables, nextInvoiceId, nextItemId>>
       ELSE IF NotOwner(id, user)
       THEN /\ Answer(p, "fbr_json", id, 400, "Not enough permissions")
            /\ UNCHANGED <<tables, nextInvoiceId, nextItemId>>
       ELSE /\ sessions' = [sessions EXCEPT ![p].pc = "fbr_json_select",
                                            ![p].op = "fbr_json",
                                            ![p].user = user, ![p].id = id,
                                            ![p].row = invoices[id]]
            /\ UNCHANGED <<tables, nextInvoiceId, nextItemId, last, nreq>>

\* get_fbr_json: the select of the items and the document, built from the
\* invoice as it was loaded and the items as they are now
fbr_json_select(p) ==
    /\ sessions[p].pc = "fbr_json_select"
    /\ \E rows \in SelectItems(sessions[p].id) :
         last' = [Response("fbr_json", sessions[p].id, 200, "")
                    EXCEPT !.totals = StoredTotals(sessions[p].row),
                           !.ref = sessions[p].row.invoice_ref_no,
                           !.items = [k \in DOMAIN rows |-> ItemJson(rows[k])]]
    /\ nreq' = nreq + 1
    /\ sessions' = [sessions EXCEPT ![p].pc = "done", ![p].code = 200,
                                    ![p].served = nreq + 1]
    /\ UNCHANGED <<tables, nextInvoiceId, nextItemId>>

\* the first principal has a company, a customer and a product and has
\* created one invoice, which has no items yet; the second principal has
\* no company yet
ConcurrentInit ==
    /\ customers = (1 :> "u1") @@ (2 :> "u2")
    /\ companies = (1 :> "u1")
    /\ products = (1 :> "u1") @@ (2 :> "u2")
    /\ invoices = (1 :> NewInvoice(
                           [invoice_ref_no |-> "R1", seller |-> "s1", buyer |-> "b1",
                            total_sales_value |-> 0, total_tax_amount |-> 0,
                            total_invoice_value |-> 0,
                            customer_id |-> 1, company_id |-> 1], "u1"))
    /\ items = {}
    /\ nextInvoiceId = 2
    /\ nextItemId = 1
    /\ last = Response("create", 1, 200, "")
    /\ nreq = 1
    /\ sessions = [p \in Sessions |-> Idle]

ConcurrentNext ==
    \/ \E p \in Sessions, u \in Users : create_company_check(p, u)
    \/ \E p \in Sessions : create_company_commit(p)
    \/ \E p \in Sessions, u \in Users, i \in InvoiceIds, b \in ItemBodies,
          pr \in RefIds : add_item_check(p, u, i, b, pr)
    \/ \E p \in Sessions : add_item_commit(p)
    \/ \E p \in Sessions : recalc_load(p)
    \/ \E p \in Sessions : recalc_select(p)
    \/ \E p \in Sessions : recalc_commit(p)
    \/ \E p \in Sessions, u \in Users, i \in InvoiceIds, b \in UpdateBodies :
          update_check(p, u, i, b)
    \/ \E p \in Sessions : update_commit(p)
    \/ \E p \in Sessions, u \in Users, i \in InvoiceIds : submit_check(p, u, i)
    \/ \E p \in Sessions : submit_commit(p)
    \/ \E p \in Sessions, u \in Users, i \in InvoiceIds : fbr_json_check(p, u, i)
    \/ \E p \in Sessions : fbr_json_select(p)

Concurrent == ConcurrentInit /\ [][ConcurrentNext]_vars

----------------------------------------------------------------------------
(* Vocabulary of the properties *)

\* the items attached to an invoice
Attached(id) == { it \in items : it.invoice_id = id }

\* the sums of the three per-item fields over a set of items
FieldSums(rows) ==
    << SumOver(rows, "value_sales_excluding_st"),
       SumOver(rows, "sales_tax_applicable"),
       SumOver(rows, "total_value") >>

\* the reference names no row of the table, or a row of another principal
BadReference(table, ref, user) ==
    ref \notin DOMAIN table \/ table[ref] # user

OwnedBy(id, user) == id \in DOMAIN invoices /\ invoices[id].owner_id = user

----------------------------------------------------------------------------
\* C1: in every reachable state each invoice's three stored totals equal the
\* sums of value_sales_excluding_st, sales_tax_applicable and total_value
\* over the items attached to it.
C1_TotalsEqualItemSums ==
    \A i \in DOMAIN invoices : StoredTotals(invoices[i]) = FieldSums(Attached(i))

\* C2: when add-item or calculate-totals has returned successfully, the
\* stored totals are the sums over all items attached to the invoice, they
\* are 0 for an invoice without items, and calculate-totals has returned
\* what it stored.
C2_RecalculationIsFullFold ==
    (last.op \in {"add_item", "calculate_totals"} /\ last.code = 200) =>
        /\ StoredTotals(invoices[last.id]) = FieldSums(Attached(last.id))
        /\ Attached(last.id) = {} => StoredTotals(invoices[last.id]) = <<0, 0, 0>>
        /\ last.op = "calculate_totals" => last.totals = StoredTotals(invoices[last.id])

\* add-item has returned on an invoice that now holds two items
C2_Witness ==
    /\ last.op = "add_item"
    /\ last.code = 200
    /\ Cardinality(Attached(last.id)) = 2

\* C3: an update, delete or add-item request by the owner on a submitted or
\* posted invoice is answered 400 and changes neither the invoices nor the
\* items.
C3_LockedInvoiceRejectsMutation ==
    [][ last'.op \in {"update", "delete", "add_item"} =>
          \A u \in Users, i \in {last'.id} :
            ( /\ OwnedBy(i, u)
              /\ invoices[i].status \in {"submitted", "posted"}
              /\ \/ \E b \in UpdateBodies : update_fbr_invoice(u, i, b)
                 \/ delete_fbr_invoice(u, i)
                 \/ \E b \in ItemBodies, p \in RefIds : add_invoice_item(u, i, b, p) )
            => (last'.code = 400 /\ invoices' = invoices /\ items' = items) ]_vars

\* a delete of a posted invoice that holds an item has been rejected
C3_Witness ==
    /\ last.op = "delete"
    /\ last.detail = "Cannot delete submitted or posted invoices"
    /\ invoices[last.id].status = "posted"
    /\ Attached(last.id) # {}

\* C4: submit-to-fbr succeeds exactly on the owner's draft invoice; then the
\* status is submitted and fbr_reference is set in the same step; otherwise
\* the request is rejected and no invoice changes.
C4_SubmitOnlyFromDraft ==
    [][ last'.op = "submit" =>
          \A u \in Users, i \in {last'.id} :
            submit_to_fbr(u, i) =>
            IF OwnedBy(i, u) /\ invoices[i].status = "draft"
            THEN /\ last'.code = 200
                 /\ invoices'[i].status = "submitted"
                 /\ invoices'[i].fbr_reference # NoRef
                 /\ last'.ref = invoices'[i].fbr_reference
                 /\ last'.status = "submitted"
            ELSE /\ last'.code # 200
                 /\ invoices' = invoices ]_vars

\* a submission has succeeded after the reference number was changed
C4_Witness ==
    /\ last.op = "submit"
    /\ last.code = 200
    /\ invoices[last.id].status = "submitted"
    /\ invoices[last.id].fbr_reference = "FBR-R2"

\* C5: an invoice that has left draft is never draft again.
C5_NoReturnToDraft ==
    [][ \A i \in DOMAIN invoices :
          (invoices[i].status # "draft" /\ i \in DOMAIN invoices')
          => invoices'[i].status # "draft" ]_vars

\* an update has gone through on an invoice that was submitted before
C5_Witness ==
    /\ last.op = "update"
    /\ last.code = 200
    /\ invoices[last.id].status = "error"

\* C6: no step taken while an invoice is submitted or posted changes its
\* items, its seller snapshot or its buyer snapshot.
C6_LockedInvoiceKeepsItemsAndSnapshots ==
    [][ \A i \in DOMAIN invoices :
          invoices[i].status \in {"submitted", "posted"}
          => /\ i \in DOMAIN invoices'
             /\ { it \in items' : it.invoice_id = i } = Attached(i)
             /\ invoices'[i].seller = invoices[i].seller
             /\ invoices'[i].buyer = invoices[i].buyer ]_vars

\* an add-item on a submitted invoice that holds an item has been rejected
C6_Witness ==
    /\ last.op = "add_item"
    /\ last.detail = "Cannot modify submitted or posted invoices"
    /\ invoices[last.id].status = "submitted"
    /\ Attached(last.id) # {}

C8_ReferencesOwnedByInvoiceOwner ==
    \A i \in DOMAIN invoices :
        /\ ~BadReference(customers, invoices[i].customer_id, invoices[i].owner_id)
        /\ ~BadReference(companies, invoices[i].company_id, invoices[i].owner_id)

\* the attached items in the order they were persisted
RECURSIVE InPersistedOrder(_)
InPersistedOrder(rows) ==
    IF rows = {} THEN <<>>
    ELSE LET first == CHOOSE r \in rows : \A q \in rows : r.id <= q.id
         IN <<first>> \o InPersistedOrder(rows \ {first})

\* an optional amount as the document has to show it
ZeroWhenUnset(x) == IF x = None THEN 0 ELSE x

ExpectedEntry(it) ==
    [ValueSalesExcludingST |-> it.value_sales_excluding_st,
     SalesTaxApplicable |-> it.sales_tax_applicable,
     SalesTaxWithheldAtSource |-> ZeroWhenUnset(it.sales_tax_withheld_at_source),
     ExtraTax |-> ZeroWhenUnset(it.extra_tax),
     FurtherTax |-> ZeroWhenUnset(it.further_tax),
     FEDPayable |-> ZeroWhenUnset(it.fed_payable),
     FixedNotifiedValue |-> ZeroWhenUnset(it.fixed_notified_value),
     Discount |-> ZeroWhenUnset(it.discount),
     TotalValue |-> it.total_value]

\* C9: the compliance document lists one entry per attached item, in the
\* order the items were persisted, every optional amount 0 when unset and
\* the stored value otherwise.
C9_DocumentItemsInPersistedOrder ==
    (last.op = "fbr_json" /\ last.code = 200) =>
        LET rows == InPersistedOrder(Attached(last.id))
        IN last.items = [k \in DOMAIN rows |-> ExpectedEntry(rows[k])]

C11_ErrorInvoiceRejectsMutation ==
    [][ last'.op \in {"update", "delete", "add_item"} =>
          \A u \in Users, i \in {last'.id} :
            ( /\ OwnedBy(i, u)
              /\ invoices[i].status = "error"
              /\ \/ \E b \in UpdateBodies : update_fbr_invoice(u, i, b)
                 \/ delete_fbr_invoice(u, i)
                 \/ \E b \in ItemBodies, p \in RefIds : add_invoice_item(u, i, b, p) )
            => (last'.code = 400 /\ invoices' = invoices /\ items' = items) ]_vars

\* C12: no step taken while an invoice is submitted or posted changes its
\* three stored totals.
C12_TotalsFrozenAfterDraft ==
    [][ \A i \in DOMAIN invoices :
          (invoices[i].status \in {"submitted", "posted"} /\ i \in DOMAIN invoices')
          => StoredTotals(invoices'[i]) = StoredTotals(invoices[i]) ]_vars

\* C13: get-invoice and build-document by the owner succeed in every status,
\* and no read, served or rejected, changes a table.
C13_ReadsUngatedAndReadOnly ==
    [][ last'.op \in {"read", "fbr_json"} =>
          /\ UNCHANGED tables
          /\ \A u \in Users, i \in {last'.id} :
               ( /\ OwnedBy(i, u)
                 /\ read_fbr_invoice(u, i) \/ get_fbr_json(u, i) )
               => last'.code = 200 ]_vars

\* the document of a posted invoice that holds an item has been built
C13_Witness ==
    /\ last.op = "fbr_json"
    /\ last.code = 200
    /\ invoices[last.id].status = "posted"
    /\ Len(last.items) > 0

\* an absent optional component counts as 0
Component(x) == IF x = None THEN 0 ELSE x

\* C14: every stored item's total_value is value_sales_excluding_st +
\* sales_tax_applicable + extra_tax + further_tax + fed_payable - discount.
C14_ItemTotalValueFormula ==
    \A it \in items :
        it.total_value = it.value_sales_excluding_st + it.sales_tax_applicable
                         + Component(it.extra_tax) + Component(it.further_tax)
                         + Component(it.fed_payable) - Component(it.discount)

\* the operations that address an invoice by id
ById == {"read", "update", "delete", "add_item", "calculate_totals",
         "submit", "fbr_json"}

\* the step serves a request of this kind by principal u on invoice i
Addressed(op, u, i) ==
    \/ op = "read" /\ read_fbr_invoice(u, i)
    \/ op = "update" /\ \E b \in UpdateBodies : update_fbr_invoice(u, i, b)
    \/ op = "delete" /\ delete_fbr_invoice(u, i)
    \/ op = "add_item" /\ \E b \in ItemBodies, p \in RefIds : add_invoice_item(u, i, b, p)
    \/ op = "calculate_totals" /\ calculate_invoice_totals(u, i)
    \/ op = "submit" /\ submit_to_fbr(u, i)
    \/ op = "fbr_json" /\ get_fbr_json(u, i)

\* C15: an operation addressed by id answers 404 when the invoice does not
\* exist and 400, not enough permissions, when it is another principal's,
\* whatever its status; a request that is not served changes no table.
C15_MissingThenForeign ==
    [][ last'.op \in ById =>
          /\ last'.code # 200 => UNCHANGED tables
          /\ \A u \in Users, i \in {last'.id} :
               /\ (~Found(i) /\ Addressed(last'.op, u, i)) => last'.code = 404
               /\ (Found(i) /\ ~OwnedBy(i, u) /\ Addressed(last'.op, u, i)) =>
                    /\ last'.code = 400
                    /\ last'.detail = "Not enough permissions" ]_vars

\* a submit by another principal on a posted invoice has been turned down
C15_Witness ==
    /\ last.op = "submit"
    /\ last.code = 400
    /\ last.detail = "Not enough permissions"
    /\ invoices[last.id].status = "posted"

\* the companies of an owner
CompaniesOf(user) == { c \in DOMAIN companies : companies[c] = user }

\* C16: under every interleaving of create-company requests no owner has
\* more than one company.
C16_OneCompanyPerOwner ==
    \A u \in Users : Cardinality(CompaniesOf(u)) <= 1

\* C17: every stored item belongs to an existing invoice, and after a
\* successful delete no item carries the deleted invoice's id.
C17_ItemsDieWithInvoice ==
    /\ \A it \in items : it.invoice_id \in DOMAIN invoices
    /\ (last.op = "delete" /\ last.code = 200) => Attached(last.id) = {}

\* the only delete served so far has taken the only items with it
C17_Witness ==
    /\ last.op = "delete"
    /\ last.code = 200
    /\ Cardinality(DOMAIN invoices) = nextInvoiceId - 2
    /\ nextItemId > 1
    /\ items = {}

\* C18: an invoice that create-invoice has just stored is in status draft,
\* has no fbr_reference and is owned by the principal that created it.
C18_CreatedAsDraft ==
    [][ (last'.op = "create" /\ last'.code = 200) =>
          \A u \in Users, b \in CreateBodies :
            create_fbr_invoice(u, b) =>
              /\ last'.id \notin DOMAIN invoices
              /\ invoices'[last'.id].status = "draft"
              /\ invoices'[last'.id].fbr_reference = NoRef
              /\ invoices'[last'.id].owner_id = u ]_vars

\* the second principal has created an invoice with totals of its choosing
C18_Witness ==
    /\ last.op = "create"
    /\ last.code = 200
    /\ invoices[last.id].owner_id = "u2"
    /\ invoices[last.id].total_invoice_value = 9

\* session p is inside add-item and has committed its item
ItemPersisted(p) ==
    sessions[p].pc \in {"recalc_load", "recalc_select", "recalc_commit"}

\* C19: no state that other requests can read holds the item of an add-item
\* in flight while the invoice's stored totals are not the sums over its
\* items.
C19_AddItemIsOneUnitOfWork ==
    \A p \in Sessions :
        ItemPersisted(p) =>
            StoredTotals(invoices[sessions[p].id]) = FieldSums(Attached(sessions[p].id))

\* session p has completed an add-item
Added(p) ==
    /\ sessions[p].pc = "done"
    /\ sessions[p].op = "add_item"
    /\ sessions[p].code = 200

\* session q has completed a request that writes invoice columns
Wrote(q) ==
    /\ sessions[q].pc = "done"
    /\ sessions[q].op \in {"add_item", "update"}
    /\ sessions[q].code = 200

\* no completed add-item or update on the same invoice was answered after
\* p's add-item
LastWriter(p) ==
    /\ Added(p)
    /\ \A q \in Sessions :
         (Wrote(q) /\ sessions[q].id = sessions[p].id)
         => sessions[q].served <= sessions[p].served

\* C20: the totals the last add-item to complete has written are the sums
\* over the items that request had selected, its own among them, whatever
\* else is attached to the invoice by then.
C20_LastWriterWins ==
    \A p \in Sessions :
        LastWriter(p) =>
            LET stored == StoredTotals(invoices[sessions[p].id])
                t == FieldSums(sessions[p].rows)
            IN /\ \E it \in sessions[p].rows : it.id = sessions[p].item
               /\ sessions[p].rows \subseteq Attached(sessions[p].id)
               /\ \A k \in 1 .. 3 :
                    t[k] # sessions[p].loaded[k] => stored[k] = t[k]

\* two add-item requests on the same invoice have completed, and the stored
\* totals are the sums over a selection of the last writer that misses the
\* other request's item, not the sums over the attached items
C20_Witness ==
    \E p, q \in Sessions :
        /\ p # q
        /\ LastWriter(p)
        /\ Added(q)
        /\ sessions[q].id = sessions[p].id
        /\ \A r \in Sessions : sessions[r].pc \in {"idle", "done"}
        /\ \E it \in Attached(sessions[p].id) :
             it.id = sessions[q].item /\ it \notin sessions[p].rows
        /\ StoredTotals(invoices[sessions[p].id]) = FieldSums(sessions[p].rows)
        /\ StoredTotals(invoices[sessions[p].id]) # FieldSums(Attached(sessions[p].id))

RECURSIVE SumEntries(_, _)
\* the sum of one field over the entries of a document's Items
SumEntries(entries, field) ==
    IF entries = <<>> THEN 0
    ELSE Head(entries)[field] + SumEntries(Tail(entries), field)

\* session q is inside an add-item on invoice id
AddingTo(q, id) ==
    /\ sessions[q].op = "add_item"
    /\ sessions[q].id = id
    /\ sessions[q].pc \in {"item_insert", "recalc_load", "recalc_select",
                            "recalc_commit"}

\* C21: a document answered while one add-item on its invoice is in flight,
\* and nothing else has touched the invoice, carries totals that are the
\* sums over the Items it lists.
C21_DocumentIsConsistentSnapshot ==
    \A p, q \in Sessions :
        ( /\ sessions[p].pc = "done"
          /\ sessions[p].op = "fbr_json"
          /\ sessions[p].code = 200
          /\ sessions[p].served = nreq
          /\ AddingTo(q, sessions[p].id)
          /\ \A r \in Sessions \ {p, q} : sessions[r].pc = "idle" )
        => last.totals = << SumEntries(last.items, "ValueSalesExcludingST"),
                            SumEntries(last.items, "SalesTaxApplicable"),
                            SumEntries(last.items, "TotalValue") >>

\* C22: an add-item by the owner that names a missing or foreign product on
\* a submitted or posted invoice is answered with the invalid-reference
\* error.
C22_ReferenceGuardBeforeLifecycleGuard ==
    [][ last'.op = "add_item" =>
          \A u \in Users, i \in {last'.id}, b \in ItemBodies, p \in RefIds :
            ( /\ OwnedBy(i, u)
              /\ invoices[i].status \in {"submitted", "posted"}
              /\ BadReference(products, p, u)
              /\ add_invoice_item(u, i, b, p) )
            => (last'.code = 400 /\ last'.detail = "Invalid product") ]_vars

\* C23: no step attaches an item to an invoice whose status is submitted.
C23_NoItemAfterSubmit ==
    [][ \A it \in items' \ items :
          invoices[it.invoice_id].status # "submitted" ]_vars

\* C24: fbr_reference is unset exactly on draft invoices, and a set
\* fbr_reference is "FBR-" followed by the invoice's invoice_ref_no.
C24_ReferenceFollowsRefNo ==
    \A i \in DOMAIN invoices :
        /\ (invoices[i].fbr_reference = NoRef) <=> (invoices[i].status = "draft")
        /\ invoices[i].fbr_reference # NoRef =>
             invoices[i].fbr_reference = "FBR-" \o invoices[i].invoice_ref_no

\* C25: a request changes the status or the fbr_reference of an invoice
\* only if it is a submit of that invoice, which makes it submitted; no
\* request changes an invoice's owner; every new invoice comes from a
\* create, as a draft without fbr_reference; and the invoice that an
\* update, add-item, calculate-totals or build-document has been served on
\* is still stored under its id.
C25_OnlySubmitChangesStatus ==
    [][ last'.op # "fbr_outcome" =>
          /\ \A i \in DOMAIN invoices \cap DOMAIN invoices' :
               /\ invoices'[i].owner_id = invoices[i].owner_id
               /\ ( \/ invoices'[i].status # invoices[i].status
                    \/ invoices'[i].fbr_reference # invoices[i].fbr_reference )
                  => /\ last'.op = "submit"
                     /\ last'.id = i
                     /\ invoices[i].status = "draft"
                     /\ invoices'[i].status = "submitted"
          /\ \A i \in DOMAIN invoices' \ DOMAIN invoices :
               /\ last'.op = "create"
               /\ invoices'[i].status = "draft"
               /\ invoices'[i].fbr_reference = NoRef
          /\ ( /\ last'.op \in {"update", "add_item", "calculate_totals", "fbr_json"}
               /\ last'.code = 200 )
             => (last'.id \in DOMAIN invoices /\ last'.id \in DOMAIN invoices') ]_vars

\* calculate-totals has been served on a submitted invoice whose reference
\* number had been changed while it was a draft
C25_Witness ==
    /\ last.op = "calculate_totals"
    /\ last.code = 200
    /\ invoices[last.id].status = "submitted"
    /\ invoices[last.id].fbr_reference = "FBR-R2"
    /\ invoices[last.id].total_invoice_value = 0

====
